---- MODULE Spec2Model ----
(***************************************************************************)
(* A model of the contact-aggregation core of the LinkedIn lead scraper:   *)
(* WebsiteAnalyzer (utils/web_utils.py), EmailExtractor                    *)
(* (utils/email_utils.py) and LinkedInLeadScraper.generate_leads           *)
(* (scraper.py).                                                           *)
(*                                                                         *)
(* Python strings are sequences of one-character strings, so that the      *)
(* substring tests, the digit stripping and the formatting of the code are *)
(* computed and not assumed.  URLs, which the modelled code never looks    *)
(* into, are plain strings.                                                *)
(***************************************************************************)
EXTENDS Integers, Sequences, FiniteSets, TLC

VARIABLES
    pc,            \* position inside analyze_website
    website_url,   \* the argument of analyze_website
    rootPage,      \* what the site serves at the root URL
    contact_info,  \* the dict analyze_website builds (web_utils.py:53)
    contact_links, \* the result of _find_contact_pages (web_utils.py:80)
    idx,           \* position of the for loop of web_utils.py:82 (1-based)
    fetchLog,      \* history: one entry per call of _make_request
    ret,           \* the returned value, once pc = "done"
    gen_pc,        \* generate_likely_email: "call" before, "returned" after
    name,          \* its arguments ...
    company_website,
    known_emails,
    generated,     \* ... and its result
    lead_pc,       \* position inside generate_leads
    profile_urls,  \* the result of search_linkedin
    pos,           \* position of the for loop of scraper.py:322 (1-based)
    leads,         \* the list generate_leads builds
    seen,          \* history: per lead, what was observed and whether it was synthesized
    fmt_pc,        \* _format_phone_number: "call", "once" after one call, "twice" after two
    raw_phone,     \* its argument ...
    formatted,     \* ... its result ...
    reformatted,   \* ... and its result on that result
    det_pc,        \* detect_email_pattern: "call" before, "returned" after
    det_emails,    \* its argument ...
    detected       \* ... and its result

avars == <<pc, website_url, rootPage, contact_info, contact_links, idx, fetchLog, ret>>
gvars == <<gen_pc, name, company_website, known_emails, generated>>
lvars == <<lead_pc, profile_urls, pos, leads, seen>>
fvars == <<fmt_pc, raw_phone, formatted, reformatted>>
dvars == <<det_pc, det_emails, detected>>
vars == <<avars, gvars, lvars, fvars, dvars>>

----------------------------------------------------------------------------
(* Characters and strings *)

Lower == {"a","b","c","d","e","f","g","h","i","j","k","l","m",
          "n","o","p","q","r","s","t","u","v","w","x","y","z"}
Upper == {"A","B","C","D","E","F","G","H","I","J","K","L","M",
          "N","O","P","Q","R","S","T","U","V","W","X","Y","Z"}
Digit == {"0","1","2","3","4","5","6","7","8","9"}

ToSet(s) == {s[i] : i \in DOMAIN s}

\* Python's `sub in s`
Contains(s, sub) ==
    \E i \in 0..(Len(s) - Len(sub)) : SubSeq(s, i + 1, i + Len(sub)) = sub

IsDigit(c) == c \in Digit

NoDuplicates(s) == \A i, j \in DOMAIN s : i # j => s[i] # s[j]

RECURSIVE Perms(_)
Perms(S) ==
    IF S = {} THEN {<<>>}
    ELSE UNION {{<<x>> \o p : p \in Perms(S \ {x})} : x \in S}

\* list(set(xs)): the elements of xs, each once, in an order the hash seed decides
ListOfSet(xs) == Perms(ToSet(xs))

\* Python's None, and the empty dict
None == "<None>"
EmptyDict == <<>>
\* None where a str is expected, and where a list of str is expected
NoneStr == <<"<None>">>
NoneList == <<NoneStr>>

\* dict.get(key, default)
Get(d, key, default) == IF key \in DOMAIN d THEN d[key] ELSE default

\* truthiness of a str-or-None value
Truthy(v) == v # None /\ v # ""

----------------------------------------------------------------------------
(* WebsiteAnalyzer: patterns and extraction *)

EmailLocalChar == Lower \cup Upper \cup Digit \cup {".", "_", "%", "+", "-"}
EmailDomainChar == Lower \cup Upper \cup Digit \cup {".", "-"}

\* e is a full match of email_pattern
\*   [a-zA-Z0-9._%+-]+@[a-zA-Z0-9.-]+\.[a-zA-Z]{2,}
IsEmailMatch(e) ==
    \E at \in 2..Len(e), dot \in 3..Len(e) :
        /\ e[at] = "@"
        /\ dot > at + 1
        /\ e[dot] = "."
        /\ Len(e) >= dot + 2
        /\ \A i \in 1..(at - 1) : e[i] \in EmailLocalChar
        /\ \A i \in (at + 1)..(dot - 1) : e[i] \in EmailDomainChar
        /\ \A i \in (dot + 1)..Len(e) : e[i] \in Lower \cup Upper

PhoneSep == {"-", ".", " "}

\* g1 is a match of group 1 of phone_pattern, (\+\d{1,3}[-.\s]?)?, "" when absent
IsCountryCodeMatch(g1) ==
    \/ g1 = <<>>
    \/ \E n \in 1..3, s \in 0..1 :
        /\ Len(g1) = 1 + n + s
        /\ g1[1] = "+"
        /\ \A i \in 2..(n + 1) : g1[i] \in Digit
        /\ s = 1 => g1[n + 2] \in PhoneSep

\* g2 is a match of group 2 of phone_pattern, \(?\d{3}\)?[-.\s]?\d{3}[-.\s]?\d{4}
IsLocalNumberMatch(g2) ==
    \E a \in 0..1, b \in 0..1, c \in 0..1, d \in 0..1 :
        /\ Len(g2) = a + 3 + b + c + 3 + d + 4
        /\ a = 1 => g2[1] = "("
        /\ \A i \in (a + 1)..(a + 3) : g2[i] \in Digit
        /\ b = 1 => g2[a + 4] = ")"
        /\ c = 1 => g2[a + b + 4] \in PhoneSep
        /\ \A i \in (a + b + c + 4)..(a + b + c + 6) : g2[i] \in Digit
        /\ d = 1 => g2[a + b + c + 7] \in PhoneSep
        /\ \A i \in (a + b + c + d + 7)..(a + b + c + d + 10) : g2[i] \in Digit

\* one element of re.findall(phone_pattern, text): the tuple of the two groups
IsPhoneMatch(m) == Len(m) = 2 /\ IsCountryCodeMatch(m[1]) /\ IsLocalNumberMatch(m[2])

\* KeepEmail without the '@email' test
KeepEmail_NoEmailTest(email) ==
    /\ ~ ( \/ Contains(email, <<"@","e","x","a","m","p","l","e">>)
           \/ Contains(email, <<"@","d","o","m","a","i","n">>) )
    /\ ~ ( \/ Contains(email, <<".","j","p","g","@">>)
           \/ Contains(email, <<".","p","n","g","@">>)
           \/ Contains(email, <<".","g","i","f","@">>) )

\* the filter of _extract_emails on one match of the email pattern
KeepEmail(email) ==
    /\ ~ ( \/ Contains(email, <<"@","e","x","a","m","p","l","e">>)
           \/ Contains(email, <<"@","d","o","m","a","i","n">>)
           \/ Contains(email, <<"@","e","m","a","i","l">>) )
    /\ ~ ( \/ Contains(email, <<".","j","p","g","@">>)
           \/ Contains(email, <<".","p","n","g","@">>)
           \/ Contains(email, <<".","g","i","f","@">>) )

\* _extract_emails, on the matches re.findall(email_pattern, text) gives, in order
extract_emails(matches) == SelectSeq(matches, KeepEmail)

\* _extract_phone_numbers, on the tuples re.findall(phone_pattern, text) gives
extract_phone_numbers(matches) ==
    [i \in DOMAIN matches |-> matches[i][1] \o matches[i][2]]

\* re.sub(r'\D', '', phone)
DigitsOf(phone) == SelectSeq(phone, IsDigit)

\* _format_phone_number without its 11-digit branch
format_phone_number_TenOnly(phone) ==
    LET digits == DigitsOf(phone) IN
    IF Len(digits) = 10
    THEN <<"(">> \o SubSeq(digits, 1, 3) \o <<")", " ">> \o SubSeq(digits, 4, 6)
         \o <<"-">> \o SubSeq(digits, 7, 10)
    ELSE phone

\* _format_phone_number with digits[7:10] in place of digits[7:] in its 11-digit branch
format_phone_number_DropsDigit(phone) ==
    LET digits == DigitsOf(phone) IN
    IF Len(digits) = 10
    THEN <<"(">> \o SubSeq(digits, 1, 3) \o <<")", " ">> \o SubSeq(digits, 4, 6)
         \o <<"-">> \o SubSeq(digits, 7, 10)
    ELSE IF Len(digits) = 11
    THEN <<"+", digits[1], " ", "(">> \o SubSeq(digits, 2, 4) \o <<")", " ">>
         \o SubSeq(digits, 5, 7) \o <<"-">> \o SubSeq(digits, 8, 10)
    ELSE phone

\* _format_phone_number
format_phone_number(phone) ==
    LET digits == DigitsOf(phone) IN
    IF Len(digits) = 10
    THEN <<"(">> \o SubSeq(digits, 1, 3) \o <<")", " ">> \o SubSeq(digits, 4, 6)
         \o <<"-">> \o SubSeq(digits, 7, 10)
    ELSE IF Len(digits) = 11
    THEN <<"+", digits[1], " ", "(">> \o SubSeq(digits, 2, 4) \o <<")", " ">>
         \o SubSeq(digits, 5, 7) \o <<"-">> \o SubSeq(digits, 8, 11)
    ELSE phone

Platforms == {"linkedin", "twitter", "facebook", "instagram", "youtube"}

\* handle.strip('/')
RECURSIVE StripSlash(_)
StripSlash(h) ==
    IF h = <<>> THEN h
    ELSE IF Head(h) = "/" THEN StripSlash(Tail(h))
    ELSE IF h[Len(h)] = "/" THEN StripSlash(SubSeq(h, 1, Len(h) - 1))
    ELSE h

\* re.sub(r'\?.*$', '', handle): everything from the first '?' on is dropped
RECURSIVE DropQuery(_)
DropQuery(h) ==
    IF h = <<>> \/ Head(h) = "?" THEN <<>>
    ELSE <<Head(h)>> \o DropQuery(Tail(h))

\* _extract_social_media, on the per-platform results of re.findall: the first
\* match of each platform that has one, cleaned
extract_social_media(found) ==
    [p \in {q \in Platforms : found[q] # <<>>} |-> DropQuery(StripSlash(found[p][1]))]

----------------------------------------------------------------------------
(* The site: the pages the analyzer may be served *)

RootUrl == "https://acme.co"
UrlA == "https://acme.co/about"
UrlB == "https://acme.co/contact"
UrlC == "https://acme.co/team"
UrlD == "https://acme.co/support"
UrlX == "https://acme.co/shop"

E1 == <<"a","@","x",".","c","o">>
E2 == <<"b",".","c","@","x",".","c","o">>
EExample == <<"a","@","e","x","a","m","p","l","e",".","c","o">>
EDomain == <<"a","@","d","o","m","a","i","n",".","c","o">>
EEmail == <<"a","@","e","m","a","i","l",".","c","o">>
ESubExample == <<"a","@","m",".","e","x","a","m","p","l","e",".","c","o">>
EJpg == <<"a",".","j","p","g","@","x",".","c","o">>

Local1 == <<"5","5","5","1","2","3","4","5","6","7">>
Local2 == <<"5","5","5","-","1","2","3","-","4","5","6","7">>
Local3 == <<"(","5","5","5",")"," ","1","2","3","-","4","5","6","7">>
Local4 == <<"5","5","5",".","1","2","3",".","4","5","6","7">>

P10a == <<<<>>, Local2>>
P10b == <<<<>>, Local3>>
P11a == <<<<"+","1"," ">>, Local2>>
P11b == <<<<"+","1">>, Local1>>
P12a == <<<<"+","4","4"," ">>, Local2>>
P12b == <<<<"+","4","4","-">>, Local4>>
P13a == <<<<"+","3","5","8"," ">>, Local1>>
P13b == <<<<"+","3","5","8">>, Local3>>

HAcme == <<"a","c","m","e">>
HAcmeQ == <<"a","c","m","e","?","x">>
HCorp == <<"c","o","r","p">>
HNews == <<"n","e","w","s">>
HTeam == <<"t","e","a","m">>

NoSocial == [p \in Platforms |-> <<>>]

\* A page body is given by what re.findall returns on it for each pattern.
Page(emails, phones, social) == [emails |-> emails, phones |-> phones, social |-> social]

RootPages ==
    { Page(<<E1, EExample, E1>>, <<P10a, P12a, P12b>>,
           [NoSocial EXCEPT !["linkedin"] = <<HAcmeQ, HCorp>>]),
      Page(<<ESubExample>>, <<P13a, P13b>>, NoSocial) }

PageAt(url, root) ==
    CASE url = RootUrl -> root
      [] url = UrlA -> Page(<<E1, EDomain>>, <<P10b>>,
                            [NoSocial EXCEPT !["linkedin"] = <<HCorp>>,
                                             !["twitter"] = <<HNews>>])
      [] url = UrlB -> Page(<<E2, E1>>, <<P11b>>,
                            [NoSocial EXCEPT !["twitter"] = <<HTeam>>])
      [] url = UrlC -> Page(<<EJpg>>, <<P11a>>,
                            [NoSocial EXCEPT !["linkedin"] = <<HTeam>>])
      [] OTHER -> Page(<<EEmail>>, <<>>, NoSocial)

\* The outcomes of requests.get: a response with a status code, a timeout, or
\* another transport error.
Status(code) == [kind |-> "status", code |-> code]
Outcomes == {Status(200), Status(201), Status(404),
             [kind |-> "timeout", code |-> 0], [kind |-> "error", code |-> 0]}

\* _make_request returns the response (TRUE) or None (FALSE)
make_request(outcome) == outcome.kind = "status" /\ outcome.code = 200

\* The hyperlinks of the root page: the absolute URL each resolves to, and whether
\* its href or text holds one of contact_keywords.
Link(url, kw) == [url |-> url, kw |-> kw]
LinkChoices == {Link(UrlA, TRUE), Link(UrlB, TRUE), Link(UrlC, TRUE), Link(UrlD, TRUE),
                Link(RootUrl, TRUE), Link(UrlX, FALSE)}
MaxLinks == 4
LinkLists == UNION {[1..n -> LinkChoices] : n \in 0..MaxLinks}

\* _find_contact_pages: the keyword links, first occurrence of each URL kept
RECURSIVE find_contact_pages(_, _)
find_contact_pages(links, acc) ==
    IF links = <<>> THEN acc
    ELSE LET l == Head(links) IN
         find_contact_pages(Tail(links),
             IF l.kw /\ l.url \notin ToSet(acc) THEN Append(acc, l.url) ELSE acc)

\* the loop of web_utils.py:82 without its [:3]
FirstPages_NoCap(links) == links

\* contact_links[:3]
MaxContactPages == 3
FirstPages(links) == SubSeq(links, 1, IF Len(links) < MaxContactPages THEN Len(links) ELSE MaxContactPages)

\* the dict analyze_website starts from (web_utils.py:53-57)
EmptyInfo == [emails |-> <<>>, phone_numbers |-> <<>>, social_media |-> EmptyDict]

\* a falsy website_url answered with the empty record instead of {}
NoUrlResult_Record == EmptyInfo

\* what analyze_website returns for a falsy website_url (web_utils.py:50-51)
NoUrlResult == EmptyDict

\* _analyze_contact_page: the contact record of one secondary page, empty when
\* the fetch fails
analyze_contact_page(outcome, page) ==
    IF ~ make_request(outcome) THEN EmptyInfo
    ELSE [emails |-> extract_emails(page.emails),
          phone_numbers |-> [i \in DOMAIN page.phones |->
                               format_phone_number(extract_phone_numbers(page.phones)[i])],
          social_media |-> extract_social_media(page.social)]

\* the merge with assignment in place of extend: a page's lists replace the lists
MergeContactPage_Assign(info, page_info) ==
    [emails |-> Get(page_info, "emails", <<>>),
     phone_numbers |-> Get(page_info, "phone_numbers", <<>>),
     social_media |->
        LET sm == Get(page_info, "social_media", EmptyDict) IN
        [p \in DOMAIN info.social_media \cup DOMAIN sm |->
            IF p \in DOMAIN info.social_media THEN info.social_media[p] ELSE sm[p]]]

\* the merge with dict.update in place of the `not in` test: the later page wins
MergeContactPage_Update(info, page_info) ==
    [emails |-> info.emails \o Get(page_info, "emails", <<>>),
     phone_numbers |-> info.phone_numbers \o Get(page_info, "phone_numbers", <<>>),
     social_media |-> Get(page_info, "social_media", EmptyDict) @@ info.social_media]

\* the merge of one secondary page's record into contact_info (web_utils.py:85-91)
MergeContactPage(info, page_info) ==
    [emails |-> info.emails \o Get(page_info, "emails", <<>>),
     phone_numbers |-> info.phone_numbers \o Get(page_info, "phone_numbers", <<>>),
     social_media |->
        LET sm == Get(page_info, "social_media", EmptyDict) IN
        [p \in DOMAIN info.social_media \cup DOMAIN sm |->
            IF p \in DOMAIN info.social_media THEN info.social_media[p] ELSE sm[p]]]

\* the final step without the deduplication of the emails
RemoveDuplicates_KeepEmails(info) ==
    {[info EXCEPT !.phone_numbers = ps] :
        ps \in ListOfSet([i \in DOMAIN info.phone_numbers |->
                             format_phone_number(info.phone_numbers[i])])}

\* the possible results of the final deduplication (web_utils.py:94-95)
RemoveDuplicates(info) ==
    {[info EXCEPT !.emails = es, !.phone_numbers = ps] :
        es \in ListOfSet(info.emails),
        ps \in ListOfSet([i \in DOMAIN info.phone_numbers |->
                             format_phone_number(info.phone_numbers[i])])}

\* history entry of one call of _make_request: ok when it returned a response
LogEntry(url, outcome) ==
    [url |-> url, outcome |-> outcome, ok |-> make_request(outcome)]

Urls == {RootUrl, UrlA, UrlB, UrlC, UrlD, UrlX}

\* every match a page is said to hold is a match of the pattern it is a match of
WellFormedPage(page) ==
    /\ \A i \in DOMAIN page.emails : IsEmailMatch(page.emails[i])
    /\ \A i \in DOMAIN page.phones : IsPhoneMatch(page.phones[i])
    /\ \A p \in Platforms : \A i \in DOMAIN page.social[p] :
          /\ page.social[p][i] # <<>>
          /\ ToSet(page.social[p][i]) \cap {"/", "\"", " "} = {}

----------------------------------------------------------------------------
(* analyze_website *)

\* no call of _format_phone_number or detect_email_pattern on its own is under way
IdlePure ==
    /\ fmt_pc = "idle"
    /\ raw_phone = <<>>
    /\ formatted = <<>>
    /\ reformatted = <<>>
    /\ det_pc = "idle"
    /\ det_emails = NoneList
    /\ detected = None

Init ==
    /\ pc = "start"
    /\ website_url \in {None, "", RootUrl}
    /\ rootPage \in RootPages
    /\ \A u \in Urls : WellFormedPage(PageAt(u, rootPage))
    /\ contact_info = EmptyInfo
    /\ contact_links = <<>>
    /\ idx = 1
    /\ fetchLog = <<>>
    /\ ret = None
    /\ gen_pc = "idle"
    /\ name = NoneStr
    /\ company_website = NoneStr
    /\ known_emails = NoneList
    /\ generated = NoneStr
    /\ lead_pc = "idle"
    /\ profile_urls = <<>>
    /\ pos = 1
    /\ leads = <<>>
    /\ seen = <<>>
    /\ IdlePure

\* web_utils.py:50-51
ReturnNoUrl ==
    /\ pc = "start"
    /\ ~ Truthy(website_url)
    /\ ret' = NoUrlResult
    /\ pc' = "done"
    /\ UNCHANGED <<website_url, rootPage, contact_info, contact_links, idx, fetchLog, gvars, lvars, fvars, dvars>>

\* web_utils.py:61-63: the root fetch fails
RootFetchFails ==
    /\ pc = "start"
    /\ Truthy(website_url)
    /\ \E outcome \in Outcomes :
        /\ ~ make_request(outcome)
        /\ fetchLog' = Append(fetchLog, LogEntry(website_url, outcome))
    /\ ret' = contact_info
    /\ pc' = "done"
    /\ UNCHANGED <<website_url, rootPage, contact_info, contact_links, idx, gvars, lvars, fvars, dvars>>

\* web_utils.py:61-80: the root page is fetched, searched and its links collected
RootFetched ==
    /\ pc = "start"
    /\ Truthy(website_url)
    /\ \E outcome \in Outcomes, links \in LinkLists :
        /\ make_request(outcome)
        /\ LET page == PageAt(website_url, rootPage)
               info == [emails |-> contact_info.emails \o extract_emails(page.emails),
                        phone_numbers |-> contact_info.phone_numbers
                                          \o extract_phone_numbers(page.phones),
                        social_media |-> extract_social_media(page.social)
                                         @@ contact_info.social_media]
           IN /\ contact_info' = info
              /\ fetchLog' = Append(fetchLog, LogEntry(website_url, outcome))
        /\ contact_links' = find_contact_pages(links, <<>>)
    /\ idx' = 1
    /\ pc' = "loop"
    /\ UNCHANGED <<website_url, rootPage, ret, gvars, lvars, fvars, dvars>>

\* web_utils.py:82-91: one iteration of the loop over contact_links[:3]
AnalyzeContactPage ==
    /\ pc = "loop"
    /\ idx <= Len(FirstPages(contact_links))
    /\ \E outcome \in Outcomes :
        LET link == FirstPages(contact_links)[idx]
            page_info == analyze_contact_page(outcome, PageAt(link, rootPage))
        IN /\ contact_info' = MergeContactPage(contact_info, page_info)
           /\ fetchLog' = Append(fetchLog, LogEntry(link, outcome))
    /\ idx' = idx + 1
    /\ UNCHANGED <<pc, website_url, rootPage, contact_links, ret, gvars, lvars, fvars, dvars>>

\* web_utils.py:93-100: the loop is over; deduplicate and return
DeduplicateAndReturn ==
    /\ pc = "loop"
    /\ idx > Len(FirstPages(contact_links))
    /\ \E info \in RemoveDuplicates(contact_info) :
        /\ contact_info' = info
        /\ ret' = info
    /\ pc' = "done"
    /\ UNCHANGED <<website_url, rootPage, contact_links, idx, fetchLog, gvars, lvars, fvars, dvars>>

Next ==
    \/ ReturnNoUrl
    \/ RootFetchFails
    \/ RootFetched
    \/ AnalyzeContactPage
    \/ DeduplicateAndReturn

Spec == Init /\ [][Next]_vars

----------------------------------------------------------------------------
(* EmailExtractor *)

UpperSeq == <<"A","B","C","D","E","F","G","H","I","J","K","L","M",
              "N","O","P","Q","R","S","T","U","V","W","X","Y","Z">>
LowerSeq == <<"a","b","c","d","e","f","g","h","i","j","k","l","m",
              "n","o","p","q","r","s","t","u","v","w","x","y","z">>

\* str.lower()
LowerChar(c) == IF c \in Upper THEN LowerSeq[CHOOSE i \in 1..26 : UpperSeq[i] = c] ELSE c
ToLower(s) == [i \in DOMAIN s |-> LowerChar(s[i])]

Whitespace == {" ", "\t", "\n"}

\* str.split(): the maximal runs of non-whitespace characters, in order
RECURSIVE SplitWords(_, _, _)
SplitWords(s, word, acc) ==
    IF s = <<>> THEN (IF word = <<>> THEN acc ELSE Append(acc, word))
    ELSE IF Head(s) \in Whitespace
         THEN SplitWords(Tail(s), <<>>, IF word = <<>> THEN acc ELSE Append(acc, word))
         ELSE SplitWords(Tail(s), Append(word, Head(s)), acc)
Split(s) == SplitWords(s, <<>>, <<>>)

\* str.split('@'): the pieces between the '@' characters
RECURSIVE SplitAt(_, _, _)
SplitAt(s, piece, acc) ==
    IF s = <<>> THEN Append(acc, piece)
    ELSE IF Head(s) = "@" THEN SplitAt(Tail(s), <<>>, Append(acc, piece))
    ELSE SplitAt(Tail(s), Append(piece, Head(s)), acc)

\* re.match(r'^[a-z][a-z]{2,}$', username): three or more lowercase letters; `$`
\* also matches before one final newline
MatchesLowerWord(u) ==
    LET body == IF u # <<>> /\ u[Len(u)] = "\n" THEN SubSeq(u, 1, Len(u) - 1) ELSE u
    IN Len(body) >= 3 /\ \A i \in DOMAIN body : body[i] \in Lower

\* the classification with the '_' test ahead of the '.' test
ClassifyUsername_UnderscoreFirst(username) ==
    IF "_" \in ToSet(username) THEN "first_last"
    ELSE IF "." \in ToSet(username) THEN "first.last"
    ELSE IF Len(username) <= 2 THEN "initials"
    ELSE IF MatchesLowerWord(username) THEN "firstinitiallast"
    ELSE "unknown"

\* the classification of one username (email_utils.py:87-98)
ClassifyUsername(username) ==
    IF "." \in ToSet(username) THEN "first.last"
    ELSE IF "_" \in ToSet(username) THEN "first_last"
    ELSE IF Len(username) <= 2 THEN "initials"
    ELSE IF MatchesLowerWord(username) THEN "firstinitiallast"
    ELSE "unknown"

\* the keys of pattern_counts in insertion order (email_utils.py:103-105)
RECURSIVE CountKeys(_, _)
CountKeys(patterns, keys) ==
    IF patterns = <<>> THEN keys
    ELSE CountKeys(Tail(patterns),
                   IF Head(patterns) \in ToSet(keys) THEN keys ELSE Append(keys, Head(patterns)))

PatternCount(patterns, p) == Cardinality({i \in DOMAIN patterns : patterns[i] = p})

\* the maximum taken with >= : among tied keys the last one wins
RECURSIVE MostCommon_LastWins(_, _, _)
MostCommon_LastWins(keys, patterns, best) ==
    IF keys = <<>> THEN best
    ELSE MostCommon_LastWins(Tail(keys), patterns,
                    IF PatternCount(patterns, Head(keys)) >= PatternCount(patterns, best)
                    THEN Head(keys) ELSE best)

\* max(pattern_counts.items(), key=count): the first key, in insertion order,
\* that no later key beats
RECURSIVE MostCommon(_, _, _)
MostCommon(keys, patterns, best) ==
    IF keys = <<>> THEN best
    ELSE MostCommon(Tail(keys), patterns,
                    IF PatternCount(patterns, Head(keys)) > PatternCount(patterns, best)
                    THEN Head(keys) ELSE best)

\* detect_email_pattern without the test of email_utils.py:79-80 on several domains
detect_email_pattern_AnyDomain(emails) ==
    IF emails = NoneList \/ Len(emails) < 2 THEN None
    ELSE LET parts == [i \in DOMAIN emails |-> SplitAt(emails[i], <<>>, <<>>)]
             kept == SelectSeq(parts, LAMBDA ps : Len(ps) = 2)
             usernames == [i \in DOMAIN kept |-> kept[i][1]]
             patterns == [i \in DOMAIN usernames |-> ClassifyUsername(usernames[i])]
             keys == CountKeys(patterns, <<>>)
         IN IF kept = <<>> THEN None
            ELSE MostCommon(Tail(keys), patterns, Head(keys))

\* detect_email_pattern
detect_email_pattern(emails) ==
    IF emails = NoneList \/ Len(emails) < 2 THEN None
    ELSE LET parts == [i \in DOMAIN emails |-> SplitAt(emails[i], <<>>, <<>>)]
             kept == SelectSeq(parts, LAMBDA ps : Len(ps) = 2)
             domains == {kept[i][2] : i \in DOMAIN kept}
             usernames == [i \in DOMAIN kept |-> kept[i][1]]
             patterns == [i \in DOMAIN usernames |-> ClassifyUsername(usernames[i])]
             keys == CountKeys(patterns, <<>>)
         IN IF Cardinality(domains) # 1 THEN None
            ELSE MostCommon(Tail(keys), patterns, Head(keys))

\* the characters of s from position i up to, not including, the next '/'
RECURSIVE RunToSlash(_, _)
RunToSlash(s, i) ==
    IF i > Len(s) \/ s[i] = "/" THEN <<>> ELSE <<s[i]>> \o RunToSlash(s, i + 1)

HasAt(s, i, piece) == i + Len(piece) - 1 <= Len(s) /\ SubSeq(s, i, i + Len(piece) - 1) = piece

\* group 1 of re.search(r'https?://(?:www\.)?([^/]+)', s) for a match that starts
\* at position i, NoneStr when there is none: the optional 'www.' is taken when a
\* character other than '/' follows it, and left to the group otherwise
DomainMatchAt(s, i) ==
    LET after == IF HasAt(s, i, <<"h","t","t","p","s",":","/","/">>) THEN i + 8
                 ELSE IF HasAt(s, i, <<"h","t","t","p",":","/","/">>) THEN i + 7
                 ELSE 0
    IN IF after = 0 THEN NoneStr
       ELSE IF HasAt(s, after, <<"w","w","w",".">>) /\ RunToSlash(s, after + 4) # <<>>
            THEN RunToSlash(s, after + 4)
       ELSE IF RunToSlash(s, after) # <<>> THEN RunToSlash(s, after)
       ELSE NoneStr

\* re.search: the match at the leftmost position that has one
DomainSearch(s) ==
    LET starts == {i \in DOMAIN s : DomainMatchAt(s, i) # NoneStr}
    IN IF starts = {} THEN NoneStr
       ELSE DomainMatchAt(s, CHOOSE i \in starts : \A j \in starts : i <= j)

NameUnknown == <<"U","n","k","n","o","w","n">>

\* the string a format of email_formats gives (email_utils.py:14-22, 163-171)
EmailFormats(first, last, first_initial, last_initial, domain) ==
    << first \o <<".">> \o last \o <<"@">> \o domain,
       first_initial \o last \o <<"@">> \o domain,
       first \o <<"@">> \o domain,
       last \o <<"@">> \o domain,
       first_initial \o <<".">> \o last \o <<"@">> \o domain,
       first \o last_initial \o <<"@">> \o domain,
       first \o <<"_">> \o last \o <<"@">> \o domain >>

\* the choice of the template with the initials pattern left out of the chain
RenderPattern_NoInitials(pattern, first_name, last_name, first_initial, last_initial, domain) ==
    CASE pattern = "first.last" ->
            first_name \o <<".">> \o last_name \o <<"@">> \o domain
      [] pattern = "first_last" ->
            first_name \o <<"_">> \o last_name \o <<"@">> \o domain
      [] pattern = "firstinitiallast" ->
            first_initial \o last_name \o <<"@">> \o domain
      [] OTHER -> EmailFormats(first_name, last_name, first_initial, last_initial, domain)[1]

\* the choice of the template (email_utils.py:148-174): the one of the detected
\* pattern, and the first of email_formats for any other value
RenderPattern(pattern, first_name, last_name, first_initial, last_initial, domain) ==
    CASE pattern = "first.last" ->
            first_name \o <<".">> \o last_name \o <<"@">> \o domain
      [] pattern = "first_last" ->
            first_name \o <<"_">> \o last_name \o <<"@">> \o domain
      [] pattern = "initials" ->
            first_initial \o last_initial \o <<"@">> \o domain
      [] pattern = "firstinitiallast" ->
            first_initial \o last_name \o <<"@">> \o domain
      [] OTHER -> EmailFormats(first_name, last_name, first_initial, last_initial, domain)[1]

\* generate_likely_email; company_name is not read by the code
generate_likely_email(nm, website, known) ==
    IF nm = NoneStr \/ nm = <<>> \/ nm = NameUnknown \/ website = NoneStr \/ website = <<>>
    THEN NoneStr
    ELSE LET domain == DomainSearch(website)
             name_parts == Split(ToLower(nm))
         IN IF domain = NoneStr THEN NoneStr
            ELSE IF Len(name_parts) < 2 THEN NoneStr
            ELSE LET first_name == name_parts[1]
                     last_name == name_parts[Len(name_parts)]
                     pattern == IF known # NoneList /\ Len(known) > 0
                                THEN detect_email_pattern(known) ELSE None
                 IN RenderPattern(pattern, first_name, last_name,
                                  <<first_name[1]>>, <<last_name[1]>>, domain)

DomX == <<"x",".","c","o">>
DomY == <<"y",".","c","o">>
At(local, domain) == local \o <<"@">> \o domain

Names ==
    { NoneStr, <<>>, NameUnknown,
      <<"S","o","l","o">>,
      <<"A","l"," ","B","o">>,
      <<"A","l"," ","M","c"," ","B","o">>,
      <<" ","A","l"," ">>,
      <<"a","l","\t","B","O">> }

Websites ==
    { NoneStr, <<>>,
      DomX,
      <<"h","t","t","p",":","/","/">> \o DomX,
      <<"h","t","t","p","s",":","/","/","w","w","w",".">> \o DomX \o <<"/","a">>,
      <<"h","t","t","p","s",":","/","/","w","w","w",".">>,
      <<"h","t","t","p","s",":","/","/">>,
      <<"h","t","t","p","s",":","/","/","/","x">>,
      <<"f","t","p",":","/","/">> \o DomX,
      <<"s","e","e"," ","h","t","t","p",":","/","/","w","w","w",".">> \o DomY }

KnownEmailLists ==
    { NoneList, <<>>,
      <<At(<<"a",".","b">>, DomX)>>,
      <<At(<<"a",".","b">>, DomX), At(<<"c",".","d">>, DomX)>>,
      <<At(<<"a",".","b">>, DomX), At(<<"c",".","d">>, DomY)>>,
      <<At(<<"a","_","b">>, DomX), At(<<"c","_","d">>, DomX)>>,
      <<At(<<"a","b">>, DomX), At(<<"c","d">>, DomX)>>,
      <<At(<<"a","b","c">>, DomX), At(<<"d","e","f">>, DomX)>>,
      <<At(<<"A","b","c">>, DomX), At(<<"A","b","1">>, DomX)>>,
      <<At(<<"a","b","c">>, DomX), At(<<"a",".","b">>, DomX)>>,
      <<At(<<"a","b">>, DomX), At(<<"a","_","b">>, DomX), At(<<"A","b","c">>, DomX)>>,
      <<<<"a","b","c">>, At(<<"a","b","c">>, DomX), At(<<"d","e","f">>, DomX)>> }

InitGen ==
    /\ pc = "idle"
    /\ website_url = None
    /\ rootPage = Page(<<>>, <<>>, NoSocial)
    /\ contact_info = EmptyInfo
    /\ contact_links = <<>>
    /\ idx = 1
    /\ fetchLog = <<>>
    /\ ret = None
    /\ gen_pc = "call"
    /\ name \in Names
    /\ company_website \in Websites
    /\ known_emails \in KnownEmailLists
    /\ generated = NoneStr
    /\ lead_pc = "idle"
    /\ profile_urls = <<>>
    /\ pos = 1
    /\ leads = <<>>
    /\ seen = <<>>
    /\ IdlePure

\* one call of generate_likely_email
Generate ==
    /\ gen_pc = "call"
    /\ generated' = generate_likely_email(name, company_website, known_emails)
    /\ gen_pc' = "returned"
    /\ UNCHANGED <<avars, lvars, fvars, dvars, name, company_website, known_emails>>

NextGen == Generate

SpecGen == InitGen /\ [][NextGen]_vars

----------------------------------------------------------------------------
(* LinkedInLeadScraper.generate_leads *)

\* extract_emails_from_text: the matches of the email pattern, each once, unfiltered
extract_emails_from_text(matches) == ListOfSet(matches)

\* extract_email_from_text: the possible first elements, None when nothing matched
extract_email_from_text(matches) ==
    IF matches = <<>> THEN {NoneStr}
    ELSE {es[1] : es \in extract_emails_from_text(matches)}

\* truthiness of a str-or-None value held as a sequence of characters
TruthyStr(v) == v # NoneStr /\ v # <<>>

NameAlBo == <<"A","l"," ","B","o">>
NameSolo == <<"S","o","l","o">>
SiteUrl == <<"h","t","t","p",":","/","/">> \o DomX

\* What the browser shows for one profile: the name and company elements (absent
\* ones leave "Unknown"), the website find_company_website gives, the matches of
\* the email pattern in the page source, and the contact-info modal: not opened,
\* opened without an email element, or opened with an email element of some text.
ModalStates == {[opened |-> FALSE, has_email |-> FALSE, text |-> <<>>],
                [opened |-> TRUE, has_email |-> FALSE, text |-> <<>>],
                [opened |-> TRUE, has_email |-> TRUE, text |-> <<>>],
                [opened |-> TRUE, has_email |-> TRUE, text |-> E2]}
ProfilePages ==
    [name : {NameUnknown, NameSolo, NameAlBo},
     company : {NameUnknown, <<"A","c","m","e">>},
     website : {NoneStr, SiteUrl},
     source_emails : {<<>>, <<E1>>},
     modal : ModalStates]

\* extract_linkedin_profile: the possible profile_data for one profile page
extract_linkedin_profile(url, page) ==
    {[name |-> page.name,
      title |-> NameUnknown,
      company |-> page.company,
      location |-> NameUnknown,
      linkedin_url |-> url,
      company_website |-> IF page.company # NameUnknown THEN page.website ELSE NoneStr,
      email |-> IF page.modal.opened /\ page.modal.has_email THEN page.modal.text ELSE e]
     : e \in extract_email_from_text(page.source_emails)}

\* The records analyze_website returns for the company website: the three fields,
\* the emails without duplicate.
SiteRecords ==
    {[emails |-> es, phone_numbers |-> <<>>, social_media |-> EmptyDict] :
        es \in {<<>>, <<E1>>, <<At(<<"a","b">>, DomX), At(<<"c","d">>, DomX)>>}}

\* the body of the loop of generate_leads on one profile (scraper.py:327-351): the
\* lead, and whether its email is the result of generate_likely_email
MergeLead(profile_data, contact_info_) ==
    IF ~ TruthyStr(profile_data.company_website)
    THEN [lead |-> profile_data, synthesized |-> FALSE]
    ELSE LET site_emails == Get(contact_info_, "emails", <<>>)
             email1 == IF site_emails # <<>> /\ ~ TruthyStr(profile_data.email)
                       THEN site_emails[1] ELSE profile_data.email
             merged == [additional_emails |-> site_emails,
                        phone_numbers |-> Get(contact_info_, "phone_numbers", <<>>),
                        social_media |-> Get(contact_info_, "social_media", EmptyDict)]
                       @@ [profile_data EXCEPT !.email = email1]
             generated_email ==
                 IF ~ TruthyStr(email1) /\ profile_data.name # NameUnknown
                 THEN generate_likely_email(profile_data.name,
                                            profile_data.company_website, site_emails)
                 ELSE NoneStr
         IN IF TruthyStr(generated_email)
            THEN [lead |-> [email_confidence |-> "Generated"]
                           @@ [merged EXCEPT !.email = generated_email],
                  synthesized |-> TRUE]
            ELSE [lead |-> merged, synthesized |-> FALSE]

MaxProfiles == 2
ProfileUrls == {"https://www.linkedin.com/in/al", "https://www.linkedin.com/in/bo"}
ProfileUrlLists ==
    {l \in UNION {[1..n -> ProfileUrls] : n \in 0..MaxProfiles} : NoDuplicates(l)}

InitLeads ==
    /\ pc = "idle"
    /\ website_url = None
    /\ rootPage = Page(<<>>, <<>>, NoSocial)
    /\ contact_info = EmptyInfo
    /\ contact_links = <<>>
    /\ idx = 1
    /\ fetchLog = <<>>
    /\ ret = None
    /\ gen_pc = "idle"
    /\ name = NoneStr
    /\ company_website = NoneStr
    /\ known_emails = NoneList
    /\ generated = NoneStr
    /\ lead_pc = "search"
    /\ profile_urls = <<>>
    /\ pos = 1
    /\ leads = <<>>
    /\ seen = <<>>
    /\ IdlePure

\* scraper.py:319: search_linkedin returns the profile URLs
SearchLinkedin ==
    /\ lead_pc = "search"
    /\ profile_urls' \in ProfileUrlLists
    /\ lead_pc' = "loop"
    /\ UNCHANGED <<avars, gvars, fvars, dvars, pos, leads, seen>>

\* scraper.py:111-112: search_linkedin raises, and so does generate_leads
SearchRaises ==
    /\ lead_pc = "search"
    /\ lead_pc' = "raised"
    /\ UNCHANGED <<avars, gvars, fvars, dvars, profile_urls, pos, leads, seen>>

\* scraper.py:322-351: one iteration of the loop, the lead is appended
ProcessProfile ==
    /\ lead_pc = "loop"
    /\ pos <= Len(profile_urls)
    /\ \E page \in ProfilePages, site \in SiteRecords :
        \E profile_data \in extract_linkedin_profile(profile_urls[pos], page) :
            LET result == MergeLead(profile_data, site) IN
            /\ leads' = Append(leads, result.lead)
            /\ seen' = Append(seen,
                   [profile_email |-> profile_data.email,
                    source_emails |-> page.source_emails,
                    modal_text |-> IF page.modal.opened /\ page.modal.has_email
                                   THEN page.modal.text ELSE NoneStr,
                    site_emails |-> IF TruthyStr(profile_data.company_website)
                                    THEN site.emails ELSE <<>>,
                    synthesized |-> result.synthesized])
    /\ pos' = pos + 1
    /\ UNCHANGED <<avars, gvars, fvars, dvars, lead_pc, profile_urls>>

\* scraper.py:352-354: the iteration raises (the browser fails on the profile) and
\* the profile is skipped
ProfileRaises ==
    /\ lead_pc = "loop"
    /\ pos <= Len(profile_urls)
    /\ pos' = pos + 1
    /\ UNCHANGED <<avars, gvars, fvars, dvars, lead_pc, profile_urls, leads, seen>>

\* scraper.py:356-357
ReturnLeads ==
    /\ lead_pc = "loop"
    /\ pos > Len(profile_urls)
    /\ lead_pc' = "done"
    /\ UNCHANGED <<avars, gvars, fvars, dvars, profile_urls, pos, leads, seen>>

NextLeads ==
    \/ SearchLinkedin
    \/ SearchRaises
    \/ ProcessProfile
    \/ ProfileRaises
    \/ ReturnLeads

SpecLeads == InitLeads /\ [][NextLeads]_vars

----------------------------------------------------------------------------
(* _format_phone_number on its own, applied to a raw phone and to its own result *)

\* the matches of group 1 of phone_pattern the inputs are built from
CountryCodes ==
    { <<>>, <<"+","1">>, <<"+","1"," ">>, <<"+","4","4">>, <<"+","4","4","-">>,
      <<"+","3","5","8">>, <<"+","3","5","8",".">> }

\* the matches of group 2 of phone_pattern the inputs are built from
LocalNumbers ==
    { open \o <<"5","5","5">> \o close \o s1 \o <<"1","2","3">> \o s2 \o <<"4","5","6","7">> :
        open \in {<<>>, <<"(">>}, close \in {<<>>, <<")">>},
        s1 \in {<<>>, <<"-">>, <<" ">>}, s2 \in {<<>>, <<".">>} }

\* the raw phones _extract_phone_numbers gives on them (web_utils.py:155)
PhoneInputs ==
    { extract_phone_numbers(<< <<cc, local>> >>)[1] : cc \in CountryCodes, local \in LocalNumbers }

InitFormat ==
    /\ pc = "idle"
    /\ website_url = None
    /\ rootPage = Page(<<>>, <<>>, NoSocial)
    /\ contact_info = EmptyInfo
    /\ contact_links = <<>>
    /\ idx = 1
    /\ fetchLog = <<>>
    /\ ret = None
    /\ gen_pc = "idle"
    /\ name = NoneStr
    /\ company_website = NoneStr
    /\ known_emails = NoneList
    /\ generated = NoneStr
    /\ lead_pc = "idle"
    /\ profile_urls = <<>>
    /\ pos = 1
    /\ leads = <<>>
    /\ seen = <<>>
    /\ fmt_pc = "call"
    /\ \E cc \in CountryCodes, local \in LocalNumbers :
          /\ IsPhoneMatch(<<cc, local>>)
          /\ raw_phone = extract_phone_numbers(<< <<cc, local>> >>)[1]
    /\ formatted = <<>>
    /\ reformatted = <<>>
    /\ det_pc = "idle"
    /\ det_emails = NoneList
    /\ detected = None

\* one call of _format_phone_number on the raw phone
FormatOnce ==
    /\ fmt_pc = "call"
    /\ formatted' = format_phone_number(raw_phone)
    /\ fmt_pc' = "once"
    /\ UNCHANGED <<avars, gvars, lvars, dvars, raw_phone, reformatted>>

\* one more call, on the result of the first
FormatAgain ==
    /\ fmt_pc = "once"
    /\ reformatted' = format_phone_number(formatted)
    /\ fmt_pc' = "twice"
    /\ UNCHANGED <<avars, gvars, lvars, dvars, raw_phone, formatted>>

NextFormat ==
    \/ FormatOnce
    \/ FormatAgain

SpecFormat == InitFormat /\ [][NextFormat]_vars

----------------------------------------------------------------------------
(* detect_email_pattern on its own *)

\* The strings the argument is made of: matches of the email pattern with local
\* parts of every category on one domain, one on another domain, and two strings
\* that do not split into two parts at '@'.
EmailPool ==
    { At(<<"a",".","b">>, DomX),
      At(<<"c","_">>, DomX),
      At(<<"a","b">>, DomX),
      At(<<"a","b","c">>, DomX),
      At(<<"A","b","c">>, DomX),
      At(<<"a","_","b",".","c">>, DomX),
      At(<<"a",".","b">>, DomY),
      <<"a","b","c">>,
      At(<<"a">>, At(<<"b">>, DomX)) }

MaxEmails == 4
DetectInputs == {NoneList} \cup UNION {[1..n -> EmailPool] : n \in 0..MaxEmails}

InitDetect ==
    /\ pc = "idle"
    /\ website_url = None
    /\ rootPage = Page(<<>>, <<>>, NoSocial)
    /\ contact_info = EmptyInfo
    /\ contact_links = <<>>
    /\ idx = 1
    /\ fetchLog = <<>>
    /\ ret = None
    /\ gen_pc = "idle"
    /\ name = NoneStr
    /\ company_website = NoneStr
    /\ known_emails = NoneList
    /\ generated = NoneStr
    /\ lead_pc = "idle"
    /\ profile_urls = <<>>
    /\ pos = 1
    /\ leads = <<>>
    /\ seen = <<>>
    /\ fmt_pc = "idle"
    /\ raw_phone = <<>>
    /\ formatted = <<>>
    /\ reformatted = <<>>
    /\ det_pc = "call"
    /\ det_emails \in DetectInputs
    /\ detected = None

\* one call of detect_email_pattern
Detect ==
    /\ det_pc = "call"
    /\ detected' = detect_email_pattern(det_emails)
    /\ det_pc' = "returned"
    /\ UNCHANGED <<avars, gvars, lvars, fvars, det_emails>>

NextDetect == Detect

SpecDetect == InitDetect /\ [][NextDetect]_vars

----------------------------------------------------------------------------
(* Properties of analyze_website *)

Done == pc = "done"
Fields == {"emails", "phone_numbers", "social_media"}

\* the returned collections, read the way the caller reads them (scraper.py:335-337)
RetEmails == Get(ret, "emails", <<>>)
RetPhones == Get(ret, "phone_numbers", <<>>)
RetSocial == Get(ret, "social_media", EmptyDict)

Min(a, b) == IF a < b THEN a ELSE b
LogUrls == [i \in DOMAIN fetchLog |-> fetchLog[i].url]
OkFetches == {i \in DOMAIN fetchLog : fetchLog[i].ok}
FailedFetches == DOMAIN fetchLog \ OkFetches
RootFetchOk == fetchLog # <<>> /\ fetchLog[1].ok

\* what the extractors give on the body served by the i-th fetch
PageOf(i) == PageAt(fetchLog[i].url, rootPage)
EmailsOf(i) == extract_emails(PageOf(i).emails)
PhonesOf(i) == extract_phone_numbers(PageOf(i).phones)
SocialOf(i) == extract_social_media(PageOf(i).social)

Reporters(p) == {i \in OkFetches : p \in DOMAIN SocialOf(i)}
FirstReporter(p) == CHOOSE i \in Reporters(p) : \A j \in Reporters(p) : i <= j

\* C1: when the root fetch succeeds, failed secondary fetches lose nothing: the
\* returned record holds every email, every normalized phone and every
\* first-reported social handle of the root page and of each secondary page that
\* was fetched, and all of the first three secondary pages were tried.
C1_FailuresLoseNothing ==
    (Done /\ RootFetchOk) =>
        /\ \A i \in OkFetches :
            /\ ToSet(EmailsOf(i)) \subseteq ToSet(ret.emails)
            /\ \A k \in DOMAIN PhonesOf(i) :
                 format_phone_number(PhonesOf(i)[k]) \in ToSet(ret.phone_numbers)
        /\ \A p \in Platforms :
             Reporters(p) # {} =>
                /\ p \in DOMAIN ret.social_media
                /\ ret.social_media[p] = SocialOf(FirstReporter(p))[p]
        /\ Len(fetchLog) = 1 + Min(3, Len(contact_links))

\* a run in which the first secondary fetch failed, a later one succeeded, and both
\* the root page and that later page gave emails
C1_Witness ==
    /\ Done /\ RootFetchOk
    /\ Len(fetchLog) >= 3
    /\ ~ fetchLog[2].ok
    /\ fetchLog[3].ok
    /\ EmailsOf(1) # <<>>
    /\ PhonesOf(3) # <<>>
    /\ Reporters("twitter") = {3}

\* C2 as stated: whatever the root URL (empty or missing included) and the fetch
\* outcomes, the returned record has the emails, phones and social fields.
C2_AlwaysThreeFields == Done => Fields \subseteq DOMAIN ret

\* C2 as amended: for a non-empty root URL the returned record has exactly the
\* three fields whatever the fetch outcomes; for an empty or missing URL the empty
\* dict is returned; and the run can always go on until it has returned.
C2_RecordOrEmptyDict ==
    /\ Done => IF Truthy(website_url) THEN DOMAIN ret = Fields ELSE ret = EmptyDict
    /\ ~ Done => ENABLED Next

\* a run returned although every fetch it made failed in a different way
C2_Witness ==
    /\ Done
    /\ Len(fetchLog) = 4
    /\ fetchLog[2].outcome.kind = "timeout"
    /\ fetchLog[3].outcome.kind = "error"
    /\ fetchLog[4].outcome = Status(404)
    /\ DOMAIN ret = Fields

\* a run on a missing URL has returned
C2_NoUrlReturned == Done /\ website_url = None /\ ret = EmptyDict

\* C3: the fetches are the root URL, then the first min(3, n) discovered URLs in
\* discovery order, one per step; none is fetched again after failing; a failure
\* does not stop the later fetches; at most 4 fetches per run.  (A run on an
\* empty or missing URL has no root URL and fetches nothing.)
C3_FetchSequence ==
    LET expected == IF Truthy(website_url)
                    THEN <<website_url>> \o SubSeq(contact_links, 1, Min(3, Len(contact_links)))
                    ELSE <<>>
        n == Len(fetchLog)
    IN /\ n <= 4
       /\ pc = "start" => n = 0
       /\ pc = "loop" => /\ n = idx
                         /\ n <= Len(expected)
                         /\ LogUrls = [i \in 1..n |-> expected[i]]
       /\ Done => LogUrls = expected
       /\ (Done /\ ~ RootFetchOk) => contact_links = <<>>
       /\ \A i, j \in DOMAIN fetchLog : (i < j /\ LogUrls[i] = LogUrls[j]) => fetchLog[i].ok

\* a run that found more than three pages, failed on the first and still fetched
\* the second and third
C3_Witness ==
    /\ Done
    /\ Len(contact_links) > 3
    /\ Len(fetchLog) = 4
    /\ ~ fetchLog[2].ok
    /\ fetchLog[3].ok

\* C4: the returned emails hold no duplicate and are exactly the union of the
\* emails extracted from the pages that were fetched.
C4_EmailsAreTheUnion ==
    Done =>
        /\ NoDuplicates(RetEmails)
        /\ ToSet(RetEmails) = UNION {ToSet(EmailsOf(i)) : i \in OkFetches}
        /\ Len(RetEmails) = Cardinality(UNION {ToSet(EmailsOf(i)) : i \in OkFetches})

\* a run in which two fetched pages gave the same email, and one of them twice
C4_Witness ==
    /\ Done
    /\ \E i, j \in OkFetches :
        /\ i # j
        /\ ToSet(EmailsOf(i)) \cap ToSet(EmailsOf(j)) # {}
        /\ ~ NoDuplicates(EmailsOf(i))
    /\ Len(RetEmails) = 2

\* the raw phone strings of the fetched pages
RawPhones == UNION {ToSet(PhonesOf(i)) : i \in OkFetches}
EntriesFor(digits) == {k \in DOMAIN RetPhones : DigitsOf(RetPhones[k]) = digits}

\* C5 as stated: raw phones with equal digits are a single entry of the returned
\* phones, for every country-code length of the pattern (none, 1, 2 or 3 digits).
C5_EqualDigitsOneEntry ==
    (Done /\ RootFetchOk) =>
        \A p \in RawPhones : Cardinality(EntriesFor(DigitsOf(p))) = 1

\* C5 as amended: raw phones with equal digits are a single entry of the returned
\* phones when the number has 10 or 11 digits (no country code, or one of 1
\* digit); the returned phones hold no duplicate string.
C5_TenOrElevenDigitsOneEntry ==
    (Done /\ RootFetchOk) =>
        /\ NoDuplicates(RetPhones)
        /\ \A p \in RawPhones :
             Len(DigitsOf(p)) \in {10, 11} => Cardinality(EntriesFor(DigitsOf(p))) = 1

\* a run that met a 10-digit number in two formats on two pages, and an 11-digit
\* number in two formats
C5_Witness ==
    /\ Done /\ RootFetchOk
    /\ \E p, q \in RawPhones : p # q /\ DigitsOf(p) = DigitsOf(q) /\ Len(DigitsOf(p)) = 10
    /\ \E p, q \in RawPhones : p # q /\ DigitsOf(p) = DigitsOf(q) /\ Len(DigitsOf(p)) = 11

\* C6: the social map is write-once per platform: no step changes or removes a
\* handle it holds, and the returned handle of a platform is the one of the
\* earliest fetched page (root, then discovery order) that reports the platform.
C6_SocialWriteOnce ==
    /\ [][\A p \in DOMAIN contact_info.social_media :
            /\ p \in DOMAIN contact_info'.social_media
            /\ contact_info'.social_media[p] = contact_info.social_media[p]]_vars
    /\ [](Done =>
            /\ DOMAIN RetSocial = {p \in Platforms : Reporters(p) # {}}
            /\ \A p \in DOMAIN RetSocial : RetSocial[p] = SocialOf(FirstReporter(p))[p])

\* a run in which two fetched pages reported different handles for one platform
C6_Witness ==
    /\ Done
    /\ \E i, j \in Reporters("linkedin") :
         i < j /\ SocialOf(i)["linkedin"] # SocialOf(j)["linkedin"]
    /\ \E i, j \in Reporters("twitter") :
         1 < i /\ i < j /\ SocialOf(i)["twitter"] # SocialOf(j)["twitter"]

\* the text after the '@' of an address
DomainPart(email) ==
    LET at == CHOOSE i \in DOMAIN email : email[i] = "@" IN SubSeq(email, at + 1, Len(email))
Placeholders == {<<"e","x","a","m","p","l","e">>, <<"d","o","m","a","i","n">>,
                 <<"e","m","a","i","l">>}
StartsWith(s, prefix) == Len(s) >= Len(prefix) /\ SubSeq(s, 1, Len(prefix)) = prefix

\* C10 as stated: no address of the aggregated or returned emails has a domain
\* part that contains 'example', 'domain' or 'email' at any position.
C10_NoPlaceholderAnywhere ==
    /\ \A e \in ToSet(contact_info.emails) : \A w \in Placeholders : ~ Contains(DomainPart(e), w)
    /\ Done => \A e \in ToSet(RetEmails) : \A w \in Placeholders : ~ Contains(DomainPart(e), w)

\* C10 as amended: no address of the aggregated or returned emails has a domain
\* part that starts with 'example', 'domain' or 'email'.
C10_NoPlaceholderAtStart ==
    /\ \A e \in ToSet(contact_info.emails) : \A w \in Placeholders : ~ StartsWith(DomainPart(e), w)
    /\ Done => \A e \in ToSet(RetEmails) : \A w \in Placeholders : ~ StartsWith(DomainPart(e), w)

\* a run returned emails although the fetched pages held a match of each of the
\* three placeholder domains
C10_Witness ==
    /\ Done
    /\ RetEmails # <<>>
    /\ \A w \in Placeholders :
         \E i \in OkFetches : \E k \in DOMAIN PageOf(i).emails :
            StartsWith(DomainPart(PageOf(i).emails[k]), w)

----------------------------------------------------------------------------
(* Properties of generate_likely_email *)

Returned == gen_pc = "returned"

\* the whitespace-separated tokens of the name, none for a missing name
NameTokens == IF name = NoneStr THEN <<>> ELSE Split(name)

WebsiteMissing == company_website = NoneStr \/ company_website = <<>>

SchemeEnd(s, i) ==
    IF HasAt(s, i, <<"h","t","t","p","s",":","/","/">>) THEN i + 8
    ELSE IF HasAt(s, i, <<"h","t","t","p",":","/","/">>) THEN i + 7
    ELSE 0

\* the hostname of the website: what follows the first http:// or https:// and an
\* optional 'www.', up to the next '/'; empty when there is no scheme
Hostname ==
    LET s == company_website
        schemes == {i \in DOMAIN s : SchemeEnd(s, i) # 0}
    IN IF WebsiteMissing \/ schemes = {} THEN <<>>
       ELSE LET rest == SchemeEnd(s, CHOOSE i \in schemes : \A j \in schemes : i <= j)
            IN IF HasAt(s, rest, <<"w","w","w",".">>) THEN RunToSlash(s, rest + 4)
               ELSE RunToSlash(s, rest)

EndsWith(s, suffix) ==
    Len(s) >= Len(suffix) /\ SubSeq(s, Len(s) - Len(suffix) + 1, Len(s)) = suffix

\* C7: generate_likely_email returns None whenever the name has fewer than 2
\* tokens or the website is missing or has no hostname after its scheme and an
\* optional leading 'www.', whatever the known emails; in every other case it
\* returns local@domain with that hostname as domain.
C7_NoneOrLocalAtHostname ==
    Returned =>
        IF Len(NameTokens) < 2 \/ WebsiteMissing \/ Hostname = <<>>
        THEN generated = NoneStr
        ELSE /\ generated # NoneStr
             /\ EndsWith(generated, <<"@">> \o Hostname)
             /\ Len(generated) > Len(Hostname) + 1

\* C8: for a name of at least 2 tokens and a website that gives a domain, the
\* result is the template of the detected category on the lower-cased first and
\* last tokens and their initials when the known emails are non-empty and the
\* category is one of the four, and first.last@domain in every other case.
C8_TemplateOfDetectedPattern ==
    (Returned /\ Len(NameTokens) >= 2 /\ ~ WebsiteMissing
              /\ DomainSearch(company_website) # NoneStr) =>
        LET tokens == Split(ToLower(name))
            first == tokens[1]
            last == tokens[Len(tokens)]
            domain == DomainSearch(company_website)
            category == IF known_emails # NoneList /\ known_emails # <<>>
                        THEN detect_email_pattern(known_emails) ELSE None
        IN generated =
             IF category = "first.last" THEN first \o <<".">> \o last \o <<"@">> \o domain
             ELSE IF category = "first_last" THEN first \o <<"_">> \o last \o <<"@">> \o domain
             ELSE IF category = "initials" THEN <<first[1], last[1]>> \o <<"@">> \o domain
             ELSE IF category = "firstinitiallast" THEN <<first[1]>> \o last \o <<"@">> \o domain
             ELSE first \o <<".">> \o last \o <<"@">> \o domain

\* a call with a three-token name and known emails of the initials pattern
\* returned the two initials at the domain
C8_Witness ==
    /\ Returned
    /\ Len(NameTokens) = 3
    /\ detect_email_pattern(known_emails) = "initials"
    /\ generated = <<"a", "b", "@">> \o DomX

\* a call with known emails of the category Unknown returned first.last@domain
C8_WitnessUnknown ==
    /\ Returned
    /\ known_emails # NoneList
    /\ detect_email_pattern(known_emails) = "unknown"
    /\ generated = <<"a","l",".","b","o","@">> \o DomX

----------------------------------------------------------------------------
(* Properties of generate_leads *)

LeadsReturned == lead_pc = "done"

Tagged(lead) == "email_confidence" \in DOMAIN lead
\* an email was read on the profile page, or stands in the website's record
ObservedDirectly(i) ==
    \/ seen[i].source_emails # <<>>
    \/ TruthyStr(seen[i].modal_text)
    \/ seen[i].site_emails # <<>>

\* the tag is there exactly when the email is the result of generate_likely_email
C9_TagIffSynthesized ==
    LeadsReturned =>
        \A i \in DOMAIN leads :
            /\ Tagged(leads[i]) <=> seen[i].synthesized
            /\ Tagged(leads[i]) => leads[i].email_confidence = "Generated"

\* C9: in every returned lead the tag "Generated" is there exactly when the
\* email is the result of generate_likely_email; a lead with a directly observed
\* email has no tag, and its email is not a synthesized one.
C9_TagMatchesOrigin ==
    /\ C9_TagIffSynthesized
    /\ LeadsReturned =>
        \A i \in DOMAIN leads :
            ObservedDirectly(i) => ~ Tagged(leads[i]) /\ ~ seen[i].synthesized

----------------------------------------------------------------------------
(* C11 *)

FormattedTwice == fmt_pc = "twice"

\* s is <<"(">> AAA <<")", " ">> BBB <<"-">> CCCC for the ten digits AAABBBCCCC
IsTenDigitForm(s, digits) ==
    /\ Len(digits) = 10
    /\ Len(s) = 14
    /\ s[1] = "(" /\ s[5] = ")" /\ s[6] = " " /\ s[10] = "-"
    /\ <<s[2], s[3], s[4], s[7], s[8], s[9], s[11], s[12], s[13], s[14]>> = digits

\* s is "+D " followed by the ten-digit form of the other ten digits
IsElevenDigitForm(s, digits) ==
    /\ Len(digits) = 11
    /\ Len(s) = 17
    /\ s[1] = "+" /\ s[2] = digits[1] /\ s[3] = " "
    /\ IsTenDigitForm(SubSeq(s, 4, 17), SubSeq(digits, 2, 11))

\* C11: _format_phone_number is idempotent on every raw phone string: formatting
\* its result again gives the same result; a raw phone of exactly 10 digits gives
\* '(AAA) BBB-CCCC', one of exactly 11 digits gives '+D (AAA) BBB-CCCC', and one of
\* any other digit count is returned unchanged.
C11_FormatIdempotent ==
    FormattedTwice =>
        LET digits == SelectSeq(raw_phone, LAMBDA c : c \in Digit) IN
        /\ reformatted = formatted
        /\ Len(digits) = 10 => IsTenDigitForm(formatted, digits)
        /\ Len(digits) = 11 => IsElevenDigitForm(formatted, digits)
        /\ Len(digits) \notin {10, 11} => formatted = raw_phone

\* an 11-digit raw phone that is rewritten by the first call and kept by the second
C11_Witness ==
    /\ FormattedTwice
    /\ Len(SelectSeq(raw_phone, LAMBDA c : c \in Digit)) = 11
    /\ formatted # raw_phone
    /\ reformatted = formatted

\* a raw phone of 12 digits, returned as it is by both calls
C11_WitnessUnchanged ==
    /\ FormattedTwice
    /\ Len(SelectSeq(raw_phone, LAMBDA c : c \in Digit)) = 12
    /\ reformatted = raw_phone

----------------------------------------------------------------------------
(* C12 *)

DetectReturned == det_pc = "returned"

\* the five categories a determination can be
Categories == {"first.last", "first_last", "initials", "firstinitiallast", "unknown"}

\* the entries of the argument, none for a missing argument
InputEmails == IF det_emails = NoneList THEN <<>> ELSE det_emails

AtCount(e) == Cardinality({i \in DOMAIN e : e[i] = "@"})

\* the entries with exactly one '@', in input order, their local parts and domains
WellFormedEmails == SelectSeq(InputEmails, LAMBDA e : AtCount(e) = 1)
AtPosition(e) == CHOOSE i \in DOMAIN e : e[i] = "@"
LocalOf(e) == SubSeq(e, 1, AtPosition(e) - 1)
DomainOf(e) == SubSeq(e, AtPosition(e) + 1, Len(e))
DomainsSpanned == {DomainOf(WellFormedEmails[i]) : i \in DOMAIN WellFormedEmails}

\* C12: detect_email_pattern returns None whenever its input has fewer than 2
\* emails or the emails span more than one distinct domain, and returns one of the
\* five categories, never None, whenever the input has at least 2 well-formed
\* emails (exactly one '@' each) that all share one domain.
C12_NoneOrCategory ==
    DetectReturned =>
        /\ Len(InputEmails) < 2 => detected = None
        /\ Cardinality(DomainsSpanned) > 1 => detected = None
        /\ (Len(WellFormedEmails) >= 2 /\ Cardinality(DomainsSpanned) = 1)
              => detected \in Categories

\* two or more well-formed emails on two domains, answered with None
C12_Witness ==
    /\ DetectReturned
    /\ Len(WellFormedEmails) >= 2
    /\ Cardinality(DomainsSpanned) = 2
    /\ detected = None

\* two well-formed emails of one domain next to a string without '@', answered
\* with a category
C12_WitnessCategory ==
    /\ DetectReturned
    /\ Len(InputEmails) = 3
    /\ Len(WellFormedEmails) = 2
    /\ Cardinality(DomainsSpanned) = 1
    /\ detected \in Categories

----------------------------------------------------------------------------
(* C13 *)

\* the outcome is a response with a status from 200 to 299
IsSuccessStatus(outcome) == outcome.kind = "status" /\ outcome.code \in 200..299

\* the fetches whose outcome the claim counts as a success
SuccessStatusFetches == {i \in DOMAIN fetchLog : IsSuccessStatus(fetchLog[i].outcome)}

\* the collected emails and phones and the raw phones of the pages in a set of fetches
CollectedEmails == ToSet(contact_info.emails)
EmailsOfFetches(fetches) == UNION {ToSet(EmailsOf(i)) : i \in fetches}

\* A failed fetch contributes no content and ends nothing: what has been collected
\* comes from the pages whose fetch returned a response, every fetch is followed
\* by the next step of the analysis, and the positions analyze_website can be at
\* are its start, its loop and its return.
C13_FailedFetchGivesNothing ==
    /\ CollectedEmails \subseteq EmailsOfFetches(OkFetches)
    /\ pc \in {"start", "loop", "done"}
    /\ Done => ret \in {NoUrlResult, contact_info}

\* C13: a page fetch is treated as failed exactly when the response status is not a
\* 2xx status, or the request times out, or a transport error occurs; every
\* response with a status from 200 to 299 is a success whose body is passed to
\* extraction, and a failed fetch contributes no content and raises nothing.
C13_FailedIffNotSuccessStatus ==
    /\ \A i \in DOMAIN fetchLog : fetchLog[i].ok <=> IsSuccessStatus(fetchLog[i].outcome)
    /\ EmailsOfFetches(SuccessStatusFetches) \subseteq CollectedEmails
    /\ C13_FailedFetchGivesNothing

\* the root page answered with status 201 and a body that holds an email the
\* returned record lacks
C13_SuccessStatusDropped ==
    /\ Done
    /\ fetchLog # <<>>
    /\ fetchLog[1].outcome = Status(201)
    /\ EmailsOf(1) # <<>>
    /\ RetEmails = <<>>

----------------------------------------------------------------------------
(* C14 *)

\* the categories of the well-formed entries, in input order
VotedCategories ==
    [i \in DOMAIN WellFormedEmails |-> ClassifyUsername(LocalOf(WellFormedEmails[i]))]

\* for a sequence of categories: the votes of one, the ones with the most votes,
\* and the first and last position of one
Votes(cats, c) == Cardinality({i \in DOMAIN cats : cats[i] = c})
TiedCategories(cats) ==
    {c \in {cats[i] : i \in DOMAIN cats} :
        \A d \in {cats[i] : i \in DOMAIN cats} : Votes(cats, d) <= Votes(cats, c)}
FirstSeenAt(cats, c) == CHOOSE i \in DOMAIN cats :
                           /\ cats[i] = c
                           /\ \A j \in 1..(i - 1) : cats[j] # c
LastSeenAt(cats, c) == CHOOSE i \in DOMAIN cats :
                          /\ cats[i] = c
                          /\ \A j \in (i + 1)..Len(cats) : cats[j] # c

\* C14: when two or more categories tie for the highest vote count, the returned
\* category is the tied category that is seen first in the input order of the
\* emails, so the result is a function of the input sequence alone.
C14_FirstSeenWinsTie ==
    (DetectReturned /\ detected # None) =>
        LET cats == VotedCategories
            tied == TiedCategories(cats)
        IN Cardinality(tied) >= 2 =>
            /\ detected \in tied
            /\ \A c \in tied : FirstSeenAt(cats, detected) <= FirstSeenAt(cats, c)

\* a tie of two votes each, in which the other category has its two votes
\* before the returned one has its second
C14_Witness ==
    /\ DetectReturned
    /\ detected # None
    /\ LET cats == VotedCategories IN
       /\ Votes(cats, detected) = 2
       /\ \E c \in TiedCategories(cats) \ {detected} :
             /\ FirstSeenAt(cats, detected) < FirstSeenAt(cats, c)
             /\ LastSeenAt(cats, c) < LastSeenAt(cats, detected)

----------------------------------------------------------------------------
(* C15 *)

\* the first rule of the five that the local part meets
CategoryByRule(local) ==
    LET chars == {local[i] : i \in DOMAIN local} IN
    CASE "." \in chars -> "first.last"
      [] "." \notin chars /\ "_" \in chars -> "first_last"
      [] chars \cap {".", "_"} = {} /\ Len(local) <= 2 -> "initials"
      [] chars \cap {".", "_"} = {} /\ Len(local) >= 3 /\ chars \subseteq Lower
            -> "firstinitiallast"
      [] OTHER -> "unknown"

RuleVotes(c) ==
    Cardinality({i \in DOMAIN WellFormedEmails :
                    CategoryByRule(LocalOf(WellFormedEmails[i])) = c})

\* C15: for at least 2 emails sharing one domain, each local part is classified by
\* the first rule that matches in the order: contains '.' -> first.last; contains
\* '_' -> first_last; length <= 2 -> initials; only lowercase letters and length
\* >= 3 -> firstinitiallast; otherwise unknown; and the returned category is one
\* whose count over the classified local parts is maximal.
C15_ClassifiedInOrderMajorityWins ==
    (DetectReturned /\ Len(WellFormedEmails) >= 2 /\ Cardinality(DomainsSpanned) = 1) =>
        /\ detected \in Categories
        /\ RuleVotes(detected) >= 1
        /\ \A c \in Categories : RuleVotes(c) <= RuleVotes(detected)

\* a strict majority of local parts that hold both '.' and '_', returned as
\* first.last
C15_Witness ==
    /\ DetectReturned
    /\ Cardinality(DomainsSpanned) = 1
    /\ detected = "first.last"
    /\ \A c \in Categories \ {detected} : RuleVotes(c) < RuleVotes(detected)
    /\ \A i \in DOMAIN WellFormedEmails :
          CategoryByRule(LocalOf(WellFormedEmails[i])) = "first.last"
              => {".", "_"} \subseteq {WellFormedEmails[i][k] : k \in DOMAIN WellFormedEmails[i]}

\* two votes, the most, for one of the other four categories
C15_WitnessOtherCategory ==
    /\ DetectReturned
    /\ Len(WellFormedEmails) >= 3
    /\ detected \in {"first_last", "initials", "firstinitiallast", "unknown"}
    /\ RuleVotes(detected) = 2

====
